---------------------------- MODULE Spec2Model ----------------------------
(***************************************************************************)
(* Session lifecycle of streamlit_app.py (LiveAvatar stress-test harness). *)
(*                                                                         *)
(* The Streamlit script is re-executed top to bottom on every rerun.  One  *)
(* rerun is modelled as the sequence of steps                              *)
(*    BeginRerun -> auto-start block -> button handlers -> keep-alive tick *)
(* driven by the program counter pc.  st.session_state (ss) persists       *)
(* between reruns; every other variable is a local of the script run or a  *)
(* part of the environment (wall clock, provider, request log).            *)
(***************************************************************************)
EXTENDS Integers, Sequences, FiniteSets

(* ------------------------------ bounds --------------------------------- *)
\* wall clock values explored: 0 .. MaxTime (seconds)
MaxTime == 64
\* number of sessions the provider issues (session ids are unique)
MaxSessions == 2

(* ------------------------- program constants --------------------------- *)
\* time.time() + 60.0 : keep-alive period in seconds
KEEPALIVE_PERIOD == 60
\* r.status_code >= 400 raises (raise_for_status)
HTTP_ERROR_FLOOR == 400

(* ------------------------------ values --------------------------------- *)
\* Python None (also a JSON null, and the result of dict.get on a missing key)
None == "None"

\* Python truthiness of an optional string: None and "" are falsy
Truthy(v) == v # None /\ v # ""

\* a or b
Or2(a, b) == IF Truthy(a) THEN a ELSE b

\* a or b or c
Or3(a, b, c) == Or2(a, Or2(b, c))

\* d.get(k) for a key holding a string (or null)
Get(d, k) == IF k \in DOMAIN d THEN d[k] ELSE None

\* (d.get(k) or {}).get(f) for a key holding a nested object
GetIn(d, k, f) == IF k \in DOMAIN d THEN Get(d[k], f) ELSE None

\* FIXED_AVATAR / DEFAULT_INSTRUCTION
DEFAULT_INSTRUCTION == "To speak to me, press the speak button"

(* ----------------------------- provider -------------------------------- *)
\* the n-th session id / session token the provider issues
SessionIdTable == <<"s1", "s2", "s3", "s4", "s5", "s6">>
SessionTokenTable == <<"t1", "t2", "t3", "t4", "t5", "t6">>

\* body of a response that is not JSON: {"_raw": r.text}
RawBody == [_raw |-> "text"]

\* An HTTP exchange: status 0 stands for requests.post itself raising
\* (timeout, connection error); otherwise the HTTP status code.
Response(status, body) == [status |-> status, body |-> body]

ErrorResponses == {Response(0, RawBody), Response(500, RawBody)}

AckResponses == {Response(200, RawBody)} \cup ErrorResponses

\* bodies the token endpoint may answer with when it issues (sid, tok)
TokenBodies(sid, tok) ==
    { [session_id |-> sid, session_token |-> tok],
      [data |-> [session_id |-> sid, session_token |-> tok]],
      [session_id |-> sid],
      [session_id |-> sid, session_token |-> None],
      [session_id |-> "", session_token |-> tok],
      RawBody }

TokenResponses(n) ==
    IF n < MaxSessions
    THEN { Response(200, b) : b \in TokenBodies(SessionIdTable[n + 1], SessionTokenTable[n + 1]) }
         \cup ErrorResponses
    ELSE ErrorResponses

\* bodies the start (activate) endpoint may answer with
ActivateBodies ==
    { [livekit_url |-> "wss://x", livekit_client_token |-> "tok"],
      [livekit_url |-> "wss://x", livekit_client_token |-> "tok", ws_url |-> "wss://w"],
      [livekit_url |-> "wss://x", livekit_client_token |-> "tok", ws_url |-> "",
       websocket |-> [url |-> "wss://w2"]],
      [data |-> [livekit_url |-> "wss://x", livekit_client_token |-> "tok"]],
      [livekit |-> [url |-> "wss://y", token |-> "tok2"]],
      [liveKitUrl |-> "wss://z", token |-> "tok3"],
      [livekit_url |-> "wss://x", livekit |-> [url |-> "wss://y", token |-> "tok2"],
       liveKitUrl |-> "wss://z", livekit_client_token |-> "tok", token |-> "tok3"],
      [livekit_url |-> "", livekit |-> [url |-> "wss://y", token |-> "tok2"],
       liveKitUrl |-> "wss://z", livekit_client_token |-> None, token |-> "tok3"],
      [livekit |-> [url |-> ""], liveKitUrl |-> "wss://z",
       livekit_client_token |-> "", token |-> "tok3"],
      [livekit_url |-> "wss://x"],
      [livekit_client_token |-> "tok"],
      [livekit_url |-> "wss://x", token |-> ""],
      RawBody }

ActivateResponses == { Response(200, b) : b \in ActivateBodies } \cup ErrorResponses

\* placeholder for "no response received in this rerun"
NoResponse == Response(-1, RawBody)

(* ------------------------------ state ---------------------------------- *)
VARIABLES
    \* st.session_state
    session_id, session_token, livekit_url, livekit_client_token, ws_url,
    auto_started, test_text, stress_active, next_keepalive_at, autorefresh_on,
    \* module-level configuration
    HEYGEN_API_KEY,
    \* the script run
    pc,          \* position of the current script run
    click,       \* the button whose click triggered this rerun
    rendered,    \* the buttons were rendered by an earlier run
    created,     \* local `created` of start_liveavatar_session
    ok,          \* local `ok` of the Instruction handler
    now,         \* local `now` of the keep-alive block
    raised,      \* an exception escaped the script run
    \* environment
    clock,       \* time.time()
    issued,      \* sessions issued by the provider so far
    calls,       \* provider requests sent during the current script run
    tokResp,     \* response to this run's token request
    actResp,     \* response to this run's start request
    discarded    \* credentials obtained by handshakes that then failed

ssHandle == <<session_id, session_token, livekit_url, livekit_client_token, ws_url>>
ssKeepalive == <<stress_active, next_keepalive_at, autorefresh_on>>
ssVars == <<ssHandle, ssKeepalive, auto_started, test_text>>
runVars == <<pc, click, rendered, created, ok, now, raised>>
envVars == <<clock, issued, calls, tokResp, actResp, discarded, HEYGEN_API_KEY>>
vars == <<ssVars, runVars, envVars>>

NoCreated == [session_id |-> None, session_token |-> None]

\* one entry of the request log
Call(ep, auth, sid, success) == [ep |-> ep, auth |-> auth, sid |-> sid, ok |-> success]

(* --------------------------- HTTP helpers ------------------------------ *)
\* _post_xapi / _post_bearer raise when the request fails or status >= 400
Raises(resp) == resp.status = 0 \/ resp.status >= HTTP_ERROR_FLOOR

(* ------------------------- LiveAvatar helpers -------------------------- *)
\* create_session_token_full testing session_id alone
create_session_token_full_sid_only(resp) ==
    IF Raises(resp)
    THEN [raised |-> TRUE, session_id |-> None, session_token |-> None]
    ELSE LET data == resp.body
             sid == Get(data, "session_id")
             tok == Get(data, "session_token")
         IN  IF ~Truthy(sid)
             THEN [raised |-> TRUE, session_id |-> None, session_token |-> None]
             ELSE [raised |-> FALSE, session_id |-> sid, session_token |-> tok]

\* create_session_token_full with `and` for `or` in the missing-field test
create_session_token_full_and(resp) ==
    IF Raises(resp)
    THEN [raised |-> TRUE, session_id |-> None, session_token |-> None]
    ELSE LET data == resp.body
             sid == Get(data, "session_id")
             tok == Get(data, "session_token")
         IN  IF ~Truthy(sid) /\ ~Truthy(tok)
             THEN [raised |-> TRUE, session_id |-> None, session_token |-> None]
             ELSE [raised |-> FALSE, session_id |-> sid, session_token |-> tok]

\* create_session_token_full: POST /sessions/token and read the credentials
create_session_token_full(resp) ==
    IF Raises(resp)
    THEN [raised |-> TRUE, session_id |-> None, session_token |-> None]
    ELSE LET data == resp.body
             sid == Get(data, "session_id")
             tok == Get(data, "session_token")
         IN  IF ~Truthy(sid) \/ ~Truthy(tok)
             THEN [raised |-> TRUE, session_id |-> None, session_token |-> None]
             ELSE [raised |-> FALSE, session_id |-> sid, session_token |-> tok]

\* the url probed in the opposite order
probe_livekit_url_reordered(data) ==
    Or3(Get(data, "liveKitUrl"), GetIn(data, "livekit", "url"), Get(data, "livekit_url"))

\* livekit_url = data.get("livekit_url") or (data.get("livekit") or {}).get("url")
\*               or data.get("liveKitUrl")
probe_livekit_url(data) ==
    Or3(Get(data, "livekit_url"), GetIn(data, "livekit", "url"), Get(data, "liveKitUrl"))

\* livekit_client_token = data.get("livekit_client_token")
\*               or (data.get("livekit") or {}).get("token") or data.get("token")
probe_livekit_client_token(data) ==
    Or3(Get(data, "livekit_client_token"), GetIn(data, "livekit", "token"), Get(data, "token"))

\* ws_url = data.get("ws_url") or (data.get("websocket") or {}).get("url")
probe_ws_url(data) ==
    Or2(Get(data, "ws_url"), GetIn(data, "websocket", "url"))

NoHandle ==
    [raised |-> TRUE, session_id |-> None, session_token |-> None,
     livekit_url |-> None, livekit_client_token |-> None, ws_url |-> None]

\* start_liveavatar_session with `and` for `or` in the missing-field test
start_liveavatar_session_and(cr, resp) ==
    IF Raises(resp)
    THEN NoHandle
    ELSE LET data == resp.body
             url == probe_livekit_url(data)
             ctok == probe_livekit_client_token(data)
         IN  IF ~Truthy(url) /\ ~Truthy(ctok)
             THEN NoHandle
             ELSE [raised |-> FALSE,
                   session_id |-> cr.session_id,
                   session_token |-> cr.session_token,
                   livekit_url |-> url,
                   livekit_client_token |-> ctok,
                   ws_url |-> probe_ws_url(data)]

\* start_liveavatar_session after the token call: POST /sessions/start with the
\* session token as bearer, then probe the connection info
start_liveavatar_session(cr, resp) ==
    IF Raises(resp)
    THEN NoHandle
    ELSE LET data == resp.body
             url == probe_livekit_url(data)
             ctok == probe_livekit_client_token(data)
         IN  IF ~Truthy(url) \/ ~Truthy(ctok)
             THEN NoHandle
             ELSE [raised |-> FALSE,
                   session_id |-> cr.session_id,
                   session_token |-> cr.session_token,
                   livekit_url |-> url,
                   livekit_client_token |-> ctok,
                   ws_url |-> probe_ws_url(data)]

\* keep_session_alive without its try/except: the exception escapes
keep_session_alive_unguarded(sid, tok, resp) ==
    [raised |-> Raises(resp), calls |-> <<Call("keep-alive", tok, sid, ~Raises(resp))>>]

\* keep_session_alive: POST /sessions/keep-alive; every exception is caught and
\* logged, nothing is returned
keep_session_alive(sid, tok, resp) ==
    [raised |-> FALSE, calls |-> <<Call("keep-alive", tok, sid, ~Raises(resp))>>]

\* send_text_to_avatar returning True
send_text_to_avatar_true(sid, tok, text) ==
    TRUE

\* send_text_to_avatar reporting success for a non-empty text
send_text_to_avatar_accepting(sid, tok, text) ==
    IF ~Truthy(text) THEN FALSE ELSE TRUE

\* send_text_to_avatar: placeholder, logs and returns False
send_text_to_avatar(sid, tok, text) ==
    IF ~Truthy(text) THEN FALSE ELSE FALSE

\* stop_session without its early return for missing credentials
stop_session_always(sid, tok, resp) ==
    [raised |-> FALSE, calls |-> <<Call("stop", tok, sid, ~Raises(resp))>>]

\* stop_session without its try/except: the exception escapes
stop_session_unguarded(sid, tok, resp) ==
    IF ~(Truthy(sid) /\ Truthy(tok))
    THEN [raised |-> FALSE, calls |-> <<>>]
    ELSE [raised |-> Raises(resp), calls |-> <<Call("stop", tok, sid, ~Raises(resp))>>]

\* stop_session: POST /sessions/stop when both credentials are held; every
\* exception is caught and logged
stop_session(sid, tok, resp) ==
    IF ~(Truthy(sid) /\ Truthy(tok))
    THEN [raised |-> FALSE, calls |-> <<>>]
    ELSE [raised |-> FALSE, calls |-> <<Call("stop", tok, sid, ~Raises(resp))>>]

(* ------------------------------- Init ---------------------------------- *)
\* ss.setdefault(...) defaults; Speech.txt may or may not supply test_text
Init ==
    /\ session_id = None
    /\ session_token = None
    /\ livekit_url = None
    /\ livekit_client_token = None
    /\ ws_url = None
    /\ auto_started = FALSE
    /\ test_text \in {"", "speech"}
    /\ stress_active = FALSE
    /\ next_keepalive_at = 0
    /\ autorefresh_on = FALSE
    /\ HEYGEN_API_KEY \in BOOLEAN
    /\ pc = "idle"
    /\ click = "none"
    /\ rendered = FALSE
    /\ created = NoCreated
    /\ ok = FALSE
    /\ now = 0
    /\ raised = FALSE
    /\ clock = 0
    /\ issued = 0
    /\ calls = <<>>
    /\ tokResp = NoResponse
    /\ actResp = NoResponse
    /\ discarded = {}

(* --------------------------- environment ------------------------------- *)
\* seconds between two script runs: a user click at any time, the 2 s
\* autorefresh ping, or a long pause
Delays == {1, 2, KEEPALIVE_PERIOD}

\* seconds a provider request may take
CallDurations == {0, 1}

\* the buttons a rerun may carry; a button must have been rendered to be clicked
Clicks == IF rendered THEN {"none", "instruction", "stop"} ELSE {"none"}

(* ----------------------------- the script ------------------------------ *)
\* the API key check left out
KeyMissing_unchecked == FALSE

\* if not HEYGEN_API_KEY: st.error(...); st.stop()
KeyMissing == ~HEYGEN_API_KEY

\* A rerun starts: the script runs from the top; without an API key it halts
\* at st.stop() before anything else.
BeginRerun(c, d) ==
    /\ pc = "idle"
    /\ clock + d <= MaxTime
    /\ clock' = clock + d
    /\ click' = c
    /\ pc' = IF KeyMissing THEN "idle" ELSE "autostart"
    /\ calls' = <<>>
    /\ tokResp' = NoResponse
    /\ actResp' = NoResponse
    /\ created' = NoCreated
    /\ ok' = FALSE
    /\ now' = 0
    /\ raised' = FALSE
    /\ UNCHANGED <<ssVars, rendered, issued, discarded, HEYGEN_API_KEY>>

\* the auto-start guard also taken whenever no session is held
ShouldAutoStart_no_session == ~auto_started \/ ~Truthy(session_id)

\* the auto-start guard always taken
ShouldAutoStart_always == TRUE

\* if not ss.auto_started:
ShouldAutoStart == ~auto_started

\* auto-start block skipped
AutoStartSkip ==
    /\ pc = "autostart"
    /\ ~ShouldAutoStart
    /\ pc' = "buttons"
    /\ UNCHANGED <<ssVars, click, rendered, created, ok, now, raised, envVars>>

\* auto-start block, first half of start_liveavatar_session: the token call.
\* A failure is caught by the block's except clause and the script goes on.
TokenCall(resp) ==
    /\ pc = "autostart"
    /\ ShouldAutoStart
    /\ LET r == create_session_token_full(resp)
       IN  /\ calls' = Append(calls, Call("token", "X-API-KEY", None, ~Raises(resp)))
           /\ tokResp' = resp
           /\ issued' = IF Raises(resp) THEN issued ELSE issued + 1
           /\ created' = IF r.raised THEN NoCreated
                         ELSE [session_id |-> r.session_id, session_token |-> r.session_token]
           /\ pc' = IF r.raised THEN "buttons" ELSE "activate"
    /\ UNCHANGED <<ssVars, click, rendered, ok, now, raised,
                   clock, actResp, discarded, HEYGEN_API_KEY>>

\* auto-start block, second half: the start call and the assignments to ss
ActivateCall(resp) ==
    /\ pc = "activate"
    /\ LET r == start_liveavatar_session(created, resp)
       IN  /\ calls' = Append(calls, Call("start", created.session_token, None, ~Raises(resp)))
           /\ actResp' = resp
           /\ IF r.raised
              THEN /\ discarded' = discarded \cup {created}
                   /\ UNCHANGED <<ssHandle, auto_started>>
              ELSE /\ session_id' = r.session_id
                   /\ session_token' = r.session_token
                   /\ livekit_url' = r.livekit_url
                   /\ livekit_client_token' = r.livekit_client_token
                   /\ ws_url' = r.ws_url
                   /\ auto_started' = TRUE
                   /\ UNCHANGED discarded
    /\ created' = NoCreated
    /\ pc' = "buttons"
    /\ UNCHANGED <<ssKeepalive, test_text, click, rendered, ok, now, raised,
                   clock, issued, tokResp, HEYGEN_API_KEY>>

\* no lifecycle button was clicked in this rerun
NoButton ==
    /\ pc = "buttons"
    /\ click = "none"
    /\ pc' = "tick"
    /\ rendered' = TRUE
    /\ UNCHANGED <<ssVars, click, created, ok, now, raised, envVars>>

\* if not (ss.session_id and ss.session_token and ss.livekit_url)
SessionReady == Truthy(session_id) /\ Truthy(session_token) /\ Truthy(livekit_url)

\* text_to_send = ss.test_text if ss.test_text else DEFAULT_INSTRUCTION
text_to_send == IF Truthy(test_text) THEN test_text ELSE DEFAULT_INSTRUCTION

\* The Instruction button handler, given the result of the send (sent: the
\* requests it made, ok: its return value) and d, the seconds it took.
InstructionHandler(sendOk, sent, d) ==
    /\ pc = "buttons"
    /\ click = "instruction"
    /\ IF ~SessionReady
       THEN UNCHANGED <<ssKeepalive, ok, calls, clock>>
       ELSE /\ ok' = sendOk
            /\ calls' = calls \o sent
            /\ clock' = clock + d
            /\ IF sendOk
               THEN /\ stress_active' = TRUE
                    /\ next_keepalive_at' = clock' + KEEPALIVE_PERIOD
                    /\ autorefresh_on' = TRUE
               ELSE UNCHANGED ssKeepalive
    /\ pc' = "tick"
    /\ rendered' = TRUE
    /\ UNCHANGED <<ssHandle, auto_started, test_text, click, created, now, raised,
                   issued, tokResp, actResp, discarded, HEYGEN_API_KEY>>

\* Instruction button of this script (FULL mode)
Instruction(d) ==
    InstructionHandler(send_text_to_avatar(session_id, session_token, text_to_send), <<>>, d)

\* Stop Session button: best-effort stop, then the session fields are cleared
StopSession(resp) ==
    /\ pc = "buttons"
    /\ click = "stop"
    /\ LET r == stop_session(session_id, session_token, resp)
       IN  /\ calls' = calls \o r.calls
           /\ IF r.raised
              THEN /\ raised' = TRUE
                   /\ pc' = "idle"
                   /\ UNCHANGED <<ssHandle, ssKeepalive>>
              ELSE /\ session_id' = None
                   /\ session_token' = None
                   /\ livekit_url' = None
                   /\ livekit_client_token' = None
                   /\ ws_url' = None
                   /\ stress_active' = FALSE
                   /\ autorefresh_on' = FALSE
                   /\ next_keepalive_at' = 0
                   /\ pc' = "tick"
                   /\ UNCHANGED raised
    /\ rendered' = TRUE
    /\ UNCHANGED <<auto_started, test_text, click, created, ok, now,
                   clock, issued, tokResp, actResp, discarded, HEYGEN_API_KEY>>

\* the keep-alive block without its guard
KeepaliveArmed_unguarded == TRUE

\* the keep-alive guard without its stress_active test
KeepaliveArmed_unarmed == SessionReady

\* if ss.stress_active and ss.session_id and ss.session_token and ss.livekit_url
KeepaliveArmed == stress_active /\ SessionReady

\* the due test with the comparison reversed
KeepaliveDue_reversed(t, deadline) == t <= deadline

\* the due test with the comparison dropped
KeepaliveDue_always(t, deadline) == TRUE

\* if now >= float(ss.next_keepalive_at or 0)
KeepaliveDue(t, deadline) == t >= deadline

\* the deadline computed from the time read before the request
NextDeadline_stale(tAfter) == now' + KEEPALIVE_PERIOD

\* ss.next_keepalive_at = time.time() + 60.0, read after the request returned
NextDeadline(tAfter) == tAfter + KEEPALIVE_PERIOD

\* The keep-alive block at the end of the script.  resp is the provider's
\* answer to the keep-alive request and d its duration, if one is sent.
Tick(resp, d) ==
    /\ pc = "tick"
    /\ IF KeepaliveArmed
       THEN /\ now' = clock
            /\ IF KeepaliveDue(clock, next_keepalive_at)
               THEN LET r == keep_session_alive(session_id, session_token, resp)
                    IN  /\ calls' = calls \o r.calls
                        /\ clock' = clock + d
                        /\ raised' = r.raised
                        /\ next_keepalive_at' =
                              IF r.raised THEN next_keepalive_at
                              ELSE NextDeadline(clock')
               ELSE UNCHANGED <<calls, clock, raised, next_keepalive_at>>
       ELSE UNCHANGED <<now, calls, clock, raised, next_keepalive_at>>
    /\ pc' = "idle"
    /\ UNCHANGED <<ssHandle, stress_active, autorefresh_on, auto_started, test_text,
                   click, rendered, created, ok,
                   issued, tokResp, actResp, discarded, HEYGEN_API_KEY>>

\* _graceful_shutdown (atexit): best-effort stop if a handle is held
Shutdown(resp) ==
    /\ pc = "idle"
    /\ LET sid == session_id
           tok == session_token
       IN  calls' = IF Truthy(sid) /\ Truthy(tok)
                    THEN stop_session(sid, tok, resp).calls
                    ELSE <<>>
    /\ pc' = "exited"
    /\ raised' = FALSE
    /\ UNCHANGED <<ssVars, click, rendered, created, ok, now,
                   clock, issued, tokResp, actResp, discarded, HEYGEN_API_KEY>>

Next ==
    \/ \E c \in Clicks, d \in Delays : BeginRerun(c, d)
    \/ AutoStartSkip
    \/ \E resp \in TokenResponses(issued) : TokenCall(resp)
    \/ \E resp \in ActivateResponses : ActivateCall(resp)
    \/ NoButton
    \/ \E d \in CallDurations : Instruction(d)
    \/ \E resp \in AckResponses : StopSession(resp)
    \/ \E resp \in AckResponses, d \in CallDurations : Tick(resp, d)
    \/ \E resp \in AckResponses : Shutdown(resp)

\* the script as it is: FULL mode
Spec == Init /\ [][Next]_vars

(* ------------------- narration-capable session mode -------------------- *)
\* sendInstruction in a narration-capable mode: performs the instruction
\* request with the session's credentials and returns whether the provider
\* accepted it.
send_text_narration(sid, tok, text, resp) ==
    IF ~Truthy(text)
    THEN [ok |-> FALSE, calls |-> <<>>]
    ELSE [ok |-> ~Raises(resp), calls |-> <<Call("instruction", tok, sid, ~Raises(resp))>>]

\* Instruction button when the send is the narration-capable one
InstructionNarr(resp, d) ==
    LET r == send_text_narration(session_id, session_token, text_to_send, resp)
    IN  InstructionHandler(r.ok, r.calls, d)

NextNarr ==
    \/ \E c \in Clicks, d \in Delays : BeginRerun(c, d)
    \/ AutoStartSkip
    \/ \E resp \in TokenResponses(issued) : TokenCall(resp)
    \/ \E resp \in ActivateResponses : ActivateCall(resp)
    \/ NoButton
    \/ \E resp \in AckResponses, d \in CallDurations : InstructionNarr(resp, d)
    \/ \E resp \in AckResponses : StopSession(resp)
    \/ \E resp \in AckResponses, d \in CallDurations : Tick(resp, d)
    \/ \E resp \in AckResponses : Shutdown(resp)

\* the same script with a send that can succeed, so that the keep-alive
\* schedule of the Instruction handler and the keep-alive block are exercised
SpecNarr == Init /\ [][NextNarr]_vars

(* ======================================================================= *)
(*                               Properties                                *)
(* ======================================================================= *)

\* the last request of the current script run
LastCall == calls[Len(calls)]

\* the four identifying/transport fields of the handle
HandleHeld ==
    /\ Truthy(session_id)
    /\ Truthy(session_token)
    /\ Truthy(livekit_url)
    /\ Truthy(livekit_client_token)

HandleAbsent ==
    /\ session_id = None
    /\ session_token = None
    /\ livekit_url = None
    /\ livekit_client_token = None

\* a step of the keep-alive block that sent the keep-alive request
KeepaliveSentStep == pc = "tick" /\ Len(calls') = Len(calls) + 1

KeepaliveFailedStep == KeepaliveSentStep /\ ~calls'[Len(calls')].ok

KeepaliveSucceededStep == KeepaliveSentStep /\ calls'[Len(calls')].ok

C2_HandleAllOrNothing == HandleHeld \/ HandleAbsent

\* a handle is held in a context where an earlier handshake failed at the
\* activation stage and the user has since clicked Instruction
C2_Witness ==
    /\ HandleHeld
    /\ discarded # {}
    /\ click = "instruction"
    /\ pc = "idle"

\* C3: after Stop Session the session fields are all None and no error has
\* escaped, whether the remote stop request succeeded or raised.
C3_StopAlwaysClears ==
    [][(pc = "buttons" /\ click = "stop") =>
          /\ HandleAbsent'
          /\ ws_url' = None
          /\ ~raised'
          /\ pc' = "tick"]_vars

\* Stop Session was clicked with a handle held, the stop request failed, and
\* the fields are cleared
C3_Witness ==
    /\ click = "stop"
    /\ pc = "tick"
    /\ Len(calls) > 0
    /\ LastCall.ep = "stop"
    /\ ~LastCall.ok
    /\ HandleAbsent

\* C4: a handshake given nested responses (fields under a `data` key) produces
\* the same handle as with the flat responses: a nested token response carrying
\* both credentials lets the handshake go on to activation with them, and a
\* nested start response carrying url and token yields the handle.
C4_NestedSameAsFlat ==
    /\ (/\ pc \in {"activate", "buttons"}
        /\ actResp = NoResponse
        /\ tokResp.status = 200
        /\ "data" \in DOMAIN tokResp.body)
       => (pc = "activate" /\ created = tokResp.body.data)
    /\ (/\ pc = "buttons"
        /\ actResp.status = 200
        /\ "data" \in DOMAIN actResp.body)
       => (/\ session_id = tokResp.body.session_id
           /\ session_token = tokResp.body.session_token
           /\ livekit_url = actResp.body.data.livekit_url
           /\ livekit_client_token = actResp.body.data.livekit_client_token)

TokenResponseFails(resp) ==
    \/ Raises(resp)
    \/ ~Truthy(Get(resp.body, "session_id"))
    \/ ~Truthy(Get(resp.body, "session_token"))

StartResponseFails(resp) ==
    \/ Raises(resp)
    \/ \A v \in { Get(resp.body, "livekit_url"), GetIn(resp.body, "livekit", "url"),
                  Get(resp.body, "liveKitUrl") } : ~Truthy(v)
    \/ \A v \in { Get(resp.body, "livekit_client_token"), GetIn(resp.body, "livekit", "token"),
                  Get(resp.body, "token") } : ~Truthy(v)

\* a step of the auto-start block that ends a handshake in failure
StartFailedStep ==
    \/ pc = "autostart" /\ tokResp' # NoResponse /\ TokenResponseFails(tokResp')
    \/ pc = "activate" /\ (TokenResponseFails(tokResp) \/ StartResponseFails(actResp'))

\* C7: a handshake that fails at either stage leaves all session state
\* unchanged, and credentials obtained in a failed attempt are never stored
\* in the session state and never used in a later request.
C7_FailedStartLeavesNoTrace ==
    [][/\ StartFailedStep =>
             /\ UNCHANGED <<ssHandle, auto_started, ssKeepalive>>
             /\ pc' = "buttons"
             /\ created' = NoCreated
       /\ \A c \in discarded' :
             /\ session_id' # c.session_id
             /\ session_token' # c.session_token
             /\ \A i \in DOMAIN calls' :
                   calls'[i].ep # "start" =>
                      (calls'[i].auth # c.session_token /\ calls'[i].sid # c.session_id)]_vars

\* a handle is held and a stop request was sent with it, in a context where
\* an earlier handshake had obtained credentials and then failed at activation
C7_Witness ==
    /\ discarded # {}
    /\ click = "stop"
    /\ pc = "tick"
    /\ Len(calls) > 0
    /\ LastCall.ep = "stop"
    /\ LastCall.auth \in {SessionTokenTable[i] : i \in 1..MaxSessions}

\* C8: a start handshake is attempted only when no handle is held, and a held
\* handle is never replaced by another one.
C8_SingleHandle ==
    [][/\ (pc = "autostart" /\ Len(calls') > Len(calls)) => (HandleAbsent /\ ws_url = None)
       /\ HandleHeld => \/ UNCHANGED <<session_id, session_token, livekit_url,
                                       livekit_client_token>>
                        \/ HandleAbsent']_vars

\* a rerun with a handle held has passed the auto-start block without any
\* handshake request
C8_Witness ==
    /\ pc = "buttons"
    /\ HandleHeld
    /\ calls = <<>>
    /\ discarded # {}

\* texts an instruction may carry
Texts == {"", "speech", DEFAULT_INSTRUCTION}

\* C9: in FULL mode sending an instruction returns false for every text,
\* sends no request and leaves the handle and the keep-alive state unchanged.
C9_FullModeInstructionIsNoop ==
    [][(pc = "buttons" /\ click = "instruction") =>
          /\ \A t \in Texts : ~send_text_to_avatar(session_id, session_token, t)
          /\ ~ok'
          /\ calls' = calls
          /\ UNCHANGED <<ssHandle, ssKeepalive, auto_started>>]_vars

\* Instruction was clicked with a session ready and the handler has run
C9_Witness ==
    /\ pc = "tick"
    /\ click = "instruction"
    /\ SessionReady
    /\ HandleHeld

ShutdownStep == pc = "idle" /\ pc' = "exited"

\* C11: the shutdown hook sends a stop request exactly when both session_id
\* and session_token are held, with those credentials, and lets no error
\* escape whatever the answer; with no handle held neither the hook nor
\* stop_session (Stop Session) sends a termination request.
C11_ShutdownStopsIffHandleHeld ==
    [][/\ ShutdownStep =>
             /\ IF Truthy(session_id) /\ Truthy(session_token)
                THEN /\ Len(calls') = 1
                     /\ calls'[1].ep = "stop"
                     /\ calls'[1].auth = session_token
                     /\ calls'[1].sid = session_id
                ELSE calls' = <<>>
             /\ ~raised'
             /\ UNCHANGED ssVars
       /\ (pc = "buttons" /\ click = "stop" /\ HandleAbsent) => calls' = calls]_vars

\* the hook has run with a handle held and its stop request failed
C11_Witness ==
    /\ pc = "exited"
    /\ HandleHeld
    /\ Len(calls) = 1
    /\ LastCall.ep = "stop"
    /\ ~LastCall.ok
    /\ ~raised


C13_NoKeyNoLifecycle ==
    ~HEYGEN_API_KEY =>
        /\ calls = <<>>
        /\ issued = 0
        /\ tokResp = NoResponse
        /\ actResp = NoResponse
        /\ HandleAbsent
        /\ ~auto_started
        /\ pc \in {"idle", "exited"}

\* several reruns have halted at the API key check, then the process exited
C13_Witness ==
    /\ ~HEYGEN_API_KEY
    /\ clock > KEEPALIVE_PERIOD
    /\ pc = "exited"


\* C14: no keep-alive is owed after activation: a successful start leaves the
\* schedule unset (stress_active false), only an Instruction whose send
\* succeeded sets it, and until then no tick sends a keep-alive request.
C14_NoKeepaliveBeforeScheduleSet ==
    [][/\ (pc = "activate" /\ auto_started') => (~stress_active' /\ ~autorefresh_on')
       /\ (stress_active' /\ ~stress_active) =>
             (pc = "buttons" /\ click = "instruction" /\ ok')
       /\ (pc = "tick" /\ ~stress_active) => calls' = calls]_vars

\* a rerun after the one that started the session has run its keep-alive
\* block, with next_keepalive_at (0) in the past, and sent nothing
C14_Witness ==
    /\ pc = "idle"
    /\ HandleHeld
    /\ ~stress_active
    /\ click = "none"
    /\ clock >= next_keepalive_at
    /\ calls = <<>>


\* the requests of the current script run sent to endpoint ep
CallsTo(ep) == { i \in DOMAIN calls : calls[i].ep = ep }

\* C15: within one handshake the token request and the start request are each
\* sent at most once, the start request only after a token request that
\* returned both session_id and session_token, with that session_token as
\* bearer; a token request that fails or lacks a field is followed by no
\* start request; a start response lacking url or token yields no handle.
C15_HandshakeOrder ==
    /\ Cardinality(CallsTo("token")) <= 1
    /\ Cardinality(CallsTo("start")) <= 1
    /\ \A j \in CallsTo("start") :
          /\ \E i \in CallsTo("token") : i < j /\ calls[i].ok
          /\ Truthy(Get(tokResp.body, "session_id"))
          /\ Truthy(Get(tokResp.body, "session_token"))
          /\ calls[j].auth = tokResp.body.session_token
    /\ (tokResp # NoResponse /\ TokenResponseFails(tokResp)) =>
          (CallsTo("start") = {} /\ actResp = NoResponse /\ pc # "activate")
    /\ (actResp # NoResponse /\ StartResponseFails(actResp)) =>
          (~auto_started /\ HandleAbsent)

\* both requests were sent in order and the start response, though a 200,
\* lacked the connection info
C15_Witness ==
    /\ pc = "buttons"
    /\ Len(calls) = 2
    /\ calls[1].ep = "token"
    /\ calls[2].ep = "start"
    /\ actResp.status = 200
    /\ StartResponseFails(actResp)


\* the first non-empty value of a list of candidates, None if there is none
RECURSIVE FirstNonEmpty(_)
FirstNonEmpty(cands) ==
    IF cands = <<>> THEN None
    ELSE IF Truthy(Head(cands)) THEN Head(cands)
    ELSE FirstNonEmpty(Tail(cands))

UrlCandidates(body) ==
    <<Get(body, "livekit_url"), GetIn(body, "livekit", "url"), Get(body, "liveKitUrl")>>

TokenCandidates(body) ==
    <<Get(body, "livekit_client_token"), GetIn(body, "livekit", "token"), Get(body, "token")>>

\* C16: from a start response the transport url is the first non-empty value
\* among livekit_url, livekit.url, liveKitUrl and the transport token the
\* first non-empty value among livekit_client_token, livekit.token, token;
\* the start fails exactly when one of the two lists has no non-empty value.
C16_FirstMatchWins ==
    (pc = "buttons" /\ actResp # NoResponse /\ ~Raises(actResp)) =>
        LET u == FirstNonEmpty(UrlCandidates(actResp.body))
            k == FirstNonEmpty(TokenCandidates(actResp.body))
        IN  IF u = None \/ k = None
            THEN ~auto_started /\ HandleAbsent
            ELSE /\ auto_started
                 /\ livekit_url = u
                 /\ livekit_client_token = k
                 /\ session_id = tokResp.body.session_id
                 /\ session_token = tokResp.body.session_token

\* a start response whose first candidates are empty and whose later
\* candidates disagree has been probed
C16_Witness ==
    /\ pc = "buttons"
    /\ actResp.status = 200
    /\ Get(actResp.body, "livekit_url") = ""
    /\ Get(actResp.body, "liveKitUrl") = "wss://z"
    /\ Get(actResp.body, "token") = "tok3"
    /\ livekit_url = "wss://y"
    /\ livekit_client_token = "tok2"


\* C17: no keep-alive request is ever sent by this script: stress_active and
\* autorefresh_on stay false and next_keepalive_at stays 0.0, because
\* send_text_to_avatar never returns true.
C17_KeepaliveNeverSent ==
    /\ ~stress_active
    /\ ~autorefresh_on
    /\ next_keepalive_at = 0
    /\ ~ok
    /\ CallsTo("keep-alive") = {}

\* Instruction was clicked with the session ready, more than a keep-alive
\* period after the script first ran, and the whole script run has finished
C17_Witness ==
    /\ pc = "idle"
    /\ click = "instruction"
    /\ HandleHeld
    /\ clock > KEEPALIVE_PERIOD
    /\ calls = <<>>


\* C18: auto_started, once true, is never reset; with auto_started true no
\* handshake is attempted, so after Stop Session the handle stays absent on
\* every later rerun; a failed start leaves auto_started false, and every
\* rerun that finds it false attempts the handshake.
C18_StartOncePerContext ==
    [][/\ auto_started => auto_started'
       /\ (pc = "autostart" /\ auto_started) => (calls' = calls /\ pc' = "buttons")
       /\ (auto_started /\ HandleAbsent) => HandleAbsent'
       /\ StartFailedStep => ~auto_started'
       /\ (pc = "autostart" /\ ~auto_started) =>
             /\ Len(calls') = Len(calls) + 1
             /\ calls'[Len(calls')].ep = "token"]_vars

\* a rerun after Stop Session has passed the auto-start block without a
\* handshake, in a context whose first handshake had failed at activation
C18_Witness ==
    /\ pc = "buttons"
    /\ auto_started
    /\ HandleAbsent
    /\ calls = <<>>
    /\ discarded # {}


=============================================================================
